---- MODULE Spec2Model ----
(***************************************************************************)
(* just-auth: TokenManager (token store), RefreshQueue (single-flight      *)
(* token refresh), ApiClient (axios interceptors: attach the access token, *)
(* refresh on 401 and retry once) and AuthProvider (login / logout /       *)
(* initializeAuth).                                                        *)
(*                                                                         *)
(* JavaScript's event loop: an event (a call of the application, a network *)
(* response) runs the code it resumes up to the next await; the promise    *)
(* continuations that this run makes ready (micro) run one after the other,*)
(* in the order they became ready, before the next event is taken.         *)
(*                                                                         *)
(* Spec is the application that sends API requests, logs in and logs out;  *)
(* SpecRequests is the application that only sends API requests, with more *)
(* of them in flight; SpecLogin is the application that only logs in and   *)
(* out, with calls of login() that overlap.                                *)
(*                                                                         *)
(* Tokens are numbers: access token n is "A<n>", refresh token n is        *)
(* "R<n>", 0 is null (no token).  The server issues a fresh number with    *)
(* every login and every successful refresh.                               *)
(***************************************************************************)
EXTENDS Integers, Sequences, FiniteSets, TLC

\* ---- bounds ----
NReq == 3          \* API requests the application fires when it only sends requests (SpecRequests)
NApp == 1          \* API requests the application fires when it also logs in and out (Spec)
NLogin == 1        \* calls of login() when the application also sends API requests (Spec)
NSession == 2      \* calls of login() when the application only logs in and out (SpecLogin)

ApiIds == 1..NReq
LoginIds == (NReq + 1)..(NReq + NSession)
AppLoginIds == (NReq + 1)..(NReq + NLogin)
ReqIds == ApiIds \cup LoginIds
CallIds == 1..(NReq + NSession)    \* invocations of refreshFn (each request calls add at most once)
IsLogin(r) == r \in LoginIds

NoToken == 0
NoCall == 0
NoHeader == <<>>
NoResp == [status |-> "none", access |-> NoToken, refresh |-> NoToken]
NoOutcome == [kind |-> "none", token |-> NoToken, error |-> "null"]

VARIABLES
  store,           \* TokenManager's storage: [access, refresh]
  isRefreshing,    \* RefreshQueue.isRefreshing
  refreshPromise,  \* RefreshQueue.refreshPromise: the refreshFn invocation it holds, or NoCall
  queue,           \* RefreshQueue.queue: the waiters, in arrival order
  req,             \* the requests: the axios config (_retry, Authorization) and where its call chain stands
  calls,           \* the invocations of refreshFn (ApiClient.refreshToken)
  nCalls,          \* number of invocations of refreshFn so far
  issued,          \* the last token number the server issued
  user, loading, error,   \* AuthProvider's React state
  mounted,         \* the mount effect (initializeAuth) has run
  authErrors,      \* the calls of onAuthError, in order: the refresh cycle whose failure the handler reports
  micro,           \* the promise continuations that are ready to run, in order
  lastResp         \* the last answer of the refresh endpoint: response.data, or its failure

vars == <<store, isRefreshing, refreshPromise, queue, req, calls, nCalls, issued,
          user, loading, error, mounted, authErrors, micro, lastResp>>

queueVars == <<isRefreshing, refreshPromise, queue>>
sessionVars == <<user, loading, error>>

\* ---- TokenManager ----
EmptyStore == [access |-> NoToken, refresh |-> NoToken]
\* a bug: the refresh token is not written
setTokens_AccessOnly(s, a, rt) == [s EXCEPT !.access = a]
setTokens(s, a, rt) == [access |-> a, refresh |-> rt]
setAccessToken(s, a) == [s EXCEPT !.access = a]
\* a bug: only the access token key is removed
clearTokens_AccessOnly(s) == [s EXCEPT !.access = NoToken]
\* a bug: nothing is removed
clearTokens_Nothing(s) == s
\* a bug: only the refresh token key is removed
clearTokens_RefreshOnly(s) == [s EXCEPT !.refresh = NoToken]
clearTokens(s) == [access |-> NoToken, refresh |-> NoToken]
\* a bug: one token is enough
hasTokens_Either(s) == s.access # NoToken \/ s.refresh # NoToken
\* a bug: the refresh token is not looked at
hasTokens_AccessOnly(s) == s.access # NoToken
hasTokens(s) == s.access # NoToken /\ s.refresh # NoToken

\* ---- ApiClient: request interceptor ----
Bearer(t) == <<"Bearer", t>>
\* a bug: the interceptor attaches nothing
RequestInterceptor_Never(s, hdr) == hdr
\* a bug: the refresh token is attached in place of the access token
RequestInterceptor_RefreshToken(s, hdr) == IF s.refresh # NoToken THEN Bearer(s.refresh) ELSE hdr

\* the header the request leaves with: the stored access token when there is one,
\* otherwise whatever the config already carries
RequestInterceptor(s, hdr) == IF s.access # NoToken THEN Bearer(s.access) ELSE hdr

InitReq == [pc |-> "new", retry |-> FALSE, sent |-> 0, auth |-> NoHeader, status |-> 0,
            adds |-> 0, cyc |-> NoCall, got |-> NoOutcome, err |-> "null"]
\* a request whose call chain has ended: its config is dropped, the outcome stays
Ended(q, pc, st, e) == [InitReq EXCEPT !.pc = pc, !.status = st, !.err = e,
                                       !.retry = q.retry, !.sent = q.sent, !.adds = q.adds]
InitCall == [st |-> "unused", sentToken |-> NoToken, out |-> NoOutcome]

\* the state after construction, apart from what the storage holds
InitRest ==
  /\ isRefreshing = FALSE
  /\ refreshPromise = NoCall
  /\ queue = <<>>
  /\ req = [r \in ReqIds |-> InitReq]
  /\ calls = [c \in CallIds |-> InitCall]
  /\ nCalls = 0
  /\ issued = 1
  /\ user = "null"
  /\ loading = TRUE
  /\ error = "null"
  /\ mounted = FALSE
  /\ authErrors = <<>>
  /\ micro = <<>>
  /\ lastResp = NoResp

Init ==
  /\ store \in {EmptyStore, setTokens(EmptyStore, 1, 1)}
  /\ InitRest

\* the storage at startup may also hold what an earlier page left there: an access token
\* alone, which setAccessToken writes into an empty storage
InitStartup ==
  /\ store \in {EmptyStore, setTokens(EmptyStore, 1, 1), setAccessToken(EmptyStore, 1)}
  /\ InitRest

\* ---- AuthProvider ----
\* the mount effect: initializeAuth
InitializeAuth ==
  /\ micro = <<>>
  /\ ~mounted
  /\ mounted' = TRUE
  /\ user' = IF hasTokens(store) THEN "placeholder" ELSE user
  /\ loading' = FALSE
  /\ UNCHANGED <<store, queueVars, req, calls, nCalls, issued, error, authErrors, micro, lastResp>>

\* axiosInstance(config): the request interceptor runs and the request leaves
sendReq(r) == [req[r] EXCEPT !.pc = "inflight", !.sent = @ + 1,
                             !.auth = RequestInterceptor(store, @)]

\* the application calls apiClient.get / post / ... ; requests are issued in the order of their ids
Send(r) ==
  /\ micro = <<>>
  /\ mounted
  /\ r \in ApiIds
  /\ req[r].pc = "new"
  /\ \A q \in ApiIds : q < r => req[q].pc # "new"
  /\ req' = [req EXCEPT ![r] = sendReq(r)]
  /\ UNCHANGED <<store, queueVars, calls, nCalls, issued, sessionVars, mounted, authErrors, micro, lastResp>>

\* login(payload) up to its await of apiClient.post
Login(r) ==
  /\ micro = <<>>
  /\ mounted
  /\ IsLogin(r)
  /\ req[r].pc = "new"
  /\ \A q \in LoginIds : q < r => req[q].pc # "new"
  /\ loading' = TRUE
  /\ error' = "null"
  /\ req' = [req EXCEPT ![r] = sendReq(r)]
  /\ UNCHANGED <<store, queueVars, calls, nCalls, issued, user, mounted, authErrors, micro, lastResp>>

\* a bug: logout leaves the user in place
Logout_KeepsUser ==
  /\ micro = <<>>
  /\ mounted
  /\ store' = clearTokens(store)
  /\ error' = "null"
  /\ UNCHANGED <<queueVars, req, calls, nCalls, issued, user, loading, mounted, authErrors, micro, lastResp>>

Logout ==
  /\ micro = <<>>
  /\ mounted
  /\ store' = clearTokens(store)
  /\ user' = "null"
  /\ error' = "null"
  /\ UNCHANGED <<queueVars, req, calls, nCalls, issued, loading, mounted, authErrors, micro, lastResp>>

\* ---- the call chain of a request ends (for a login request: the rest of login()) ----
\* login() after its await succeeded: setTokens(accessToken, refreshToken), setUser(userData), setLoading(false)
SessionOnOk(r) ==
  IF IsLogin(r) THEN user' = "U" /\ loading' = FALSE /\ UNCHANGED error
                ELSE UNCHANGED sessionVars

\* a bug: the error is thrown on without being kept
SessionOnFail_NoError(r, e) ==
  IF IsLogin(r) THEN loading' = FALSE /\ UNCHANGED <<user, error>>
                ELSE UNCHANGED sessionVars
\* a bug: there is no finally, a login that fails leaves loading as it is
SessionOnFail_KeepsLoading(r, e) ==
  IF IsLogin(r) THEN error' = e /\ UNCHANGED <<user, loading>>
                ELSE UNCHANGED sessionVars

\* login() after its await threw: setError(error), rethrow, setLoading(false)
SessionOnFail(r, e) ==
  IF IsLogin(r) THEN error' = e /\ loading' = FALSE /\ UNCHANGED user
                ELSE UNCHANGED sessionVars

\* the continuations: add after its await of refreshPromise, the response interceptor after its await of add
AddCont(r) == <<"add", r>>
ResumeCont(r) == <<"resume", r>>
\* the request whose call of add started invocation c and awaits it
StarterOf(c) == CHOOSE r \in ReqIds : req[r].pc = "awaiting" /\ req[r].cyc = c

\* ---- ApiClient: response interceptor ----
\* a bug: the guard does not look at the stored refresh token
ShouldRefresh_NoTokenCheck(r) == ~req[r].retry
\* a bug: the refresh branch is never taken
ShouldRefresh_Never(r) == FALSE
\* a bug: the guard does not look at _retry
ShouldRefresh_NoRetryCheck(r) == store.refresh # NoToken

\* the guard of the refresh branch: a 401, not retried yet, and a refresh token is stored
ShouldRefresh(r) == ~req[r].retry /\ store.refresh # NoToken

\* a bug: the flag is tested against a promise that is not there
AddQueues_NoPromise == isRefreshing /\ refreshPromise = NoCall

\* RefreshQueue.add: "already refreshing" sends the caller to the queue
AddQueues == isRefreshing /\ refreshPromise # NoCall

\* a bug: the access token is sent as the refresh token
refreshTokenStart_SendsAccess(s) ==
  IF s.refresh = NoToken
  THEN [st |-> "settled", sentToken |-> NoToken,
        out |-> [kind |-> "err", token |-> NoToken, error |-> "NoRefreshToken"]]
  ELSE [st |-> "inflight", sentToken |-> s.access, out |-> NoOutcome]

\* ApiClient.refreshToken up to its await of axios.post(refreshUrl, {refreshToken})
refreshTokenStart(s) ==
  IF s.refresh = NoToken
  THEN [st |-> "settled", sentToken |-> NoToken,
        out |-> [kind |-> "err", token |-> NoToken, error |-> "NoRefreshToken"]]
  ELSE [st |-> "inflight", sentToken |-> s.refresh, out |-> NoOutcome]

\* a 2xx response: the response interceptor hands it on
Recv200(r) ==
  /\ micro = <<>>
  /\ req[r].pc = "inflight"
  /\ req' = [req EXCEPT ![r] = Ended(@, "done", 200, "null")]
  /\ IF IsLogin(r)
     THEN /\ issued' = issued + 1
          /\ store' = setTokens(store, issued + 1, issued + 1)
     ELSE UNCHANGED <<issued, store>>
  /\ SessionOnOk(r)
  /\ UNCHANGED <<queueVars, calls, nCalls, mounted, authErrors, micro, lastResp>>

\* the error the caller sees when the response interceptor rejects with the error it was given
ErrName(st) == IF st = 401 THEN "E401" ELSE "ENet"

\* a bug: every failed response is taken for an authorization failure
IsAuthFailure_AnyError(st) == TRUE

\* error.response?.status === 401
IsAuthFailure(st) == st = 401

\* the error handler of the response interceptor for a response of status st, up to its await
\* of refreshQueue.add; without a refresh it rejects with the error itself
ErrorHandler(r, st) ==
  /\ micro = <<>>
  /\ req[r].pc = "inflight"
  /\ IF IsAuthFailure(st) /\ ShouldRefresh(r)
     THEN /\ IF AddQueues
             THEN /\ queue' = Append(queue, r)
                  /\ req' = [req EXCEPT ![r].retry = TRUE, ![r].adds = @ + 1, ![r].status = st,
                                        ![r].pc = "queued", ![r].cyc = refreshPromise]
                  /\ UNCHANGED <<isRefreshing, refreshPromise, calls, nCalls>>
             ELSE /\ nCalls < NReq + NSession
                  /\ isRefreshing' = TRUE
                  /\ refreshPromise' = nCalls + 1
                  /\ nCalls' = nCalls + 1
                  /\ calls' = [calls EXCEPT ![nCalls + 1] = refreshTokenStart(store)]
                  /\ req' = [req EXCEPT ![r].retry = TRUE, ![r].adds = @ + 1, ![r].status = st,
                                        ![r].pc = "awaiting", ![r].cyc = nCalls + 1]
                  /\ UNCHANGED queue
          /\ UNCHANGED sessionVars
     ELSE /\ req' = [req EXCEPT ![r] = Ended(@, "failed", st, ErrName(st))]
          /\ SessionOnFail(r, ErrName(st))
          /\ UNCHANGED <<queueVars, calls, nCalls>>
  /\ micro' = IF IsAuthFailure(st) /\ ShouldRefresh(r) /\ ~AddQueues
                  /\ refreshTokenStart(store).st = "settled"
              THEN <<AddCont(r)>> ELSE <<>>
  /\ UNCHANGED <<store, issued, mounted, authErrors, lastResp>>

\* a failure that is not a 401 (5xx, network error, timeout)
RecvError(r) == ErrorHandler(r, 500)

\* a 401 response
Recv401(r) == ErrorHandler(r, 401)

\* ---- ApiClient.refreshToken after its await ----
\* a bug: setTokens is called whether or not a new refresh token came
RefreshedStore_Always(s, a, nr) == setTokens(s, a, nr)
\* a bug: the new refresh token is never stored
RefreshedStore_AccessOnly(s, a, nr) == setAccessToken(s, a)

\* the store after a successful refresh: the pair when a new refresh token came, the access token alone otherwise
RefreshedStore(s, a, nr) == IF nr # NoToken THEN setTokens(s, a, nr) ELSE setAccessToken(s, a)

\* the refresh endpoint answers with a new access token and, when rotate, a new refresh token
RefreshRespondOk(c, rotate) ==
  /\ micro = <<>>
  /\ calls[c].st = "inflight"
  /\ issued' = issued + 1
  /\ store' = RefreshedStore(store, issued + 1, IF rotate THEN issued + 1 ELSE NoToken)
  /\ calls' = [calls EXCEPT ![c].st = "settled",
                            ![c].out = [kind |-> "ok", token |-> issued + 1, error |-> "null"]]
  /\ micro' = <<AddCont(StarterOf(c))>>
  /\ lastResp' = [status |-> "ok", access |-> issued + 1, refresh |-> IF rotate THEN issued + 1 ELSE NoToken]
  /\ UNCHANGED <<queueVars, req, nCalls, sessionVars, mounted, authErrors>>

\* the refresh endpoint fails: clearTokens, throw new Error('Failed to refresh token')
RefreshRespondFail(c) ==
  /\ micro = <<>>
  /\ calls[c].st = "inflight"
  /\ store' = clearTokens(store)
  /\ calls' = [calls EXCEPT ![c].st = "settled",
                            ![c].out = [kind |-> "err", token |-> NoToken, error |-> "FailedToRefresh"]]
  /\ micro' = <<AddCont(StarterOf(c))>>
  /\ lastResp' = [status |-> "error", access |-> NoToken, refresh |-> NoToken]
  /\ UNCHANGED <<queueVars, req, nCalls, issued, sessionVars, mounted, authErrors>>

\* ---- RefreshQueue.add after its await of refreshPromise ----
\* a bug: the first waiter is left out when the queue is processed
Waiters_AllButFirst(q) == {q[i] : i \in 2..Len(q)}

\* the waiters processQueue / processQueueError go through: every entry of the queue
Waiters(q) == {q[i] : i \in 1..Len(q)}

\* a bug: the queue is gone through from its end
ReleaseOrder_Reversed(q) == [i \in 1..Len(q) |-> q[Len(q) + 1 - i]]

\* the order in which forEach calls the waiters' resolve / reject: the order of the queue
ReleaseOrder(q) == q

\* a bug: the waiters are released with an outcome that is not there yet
ProcessQueue_Unsettled(out) == NoOutcome
\* a bug: the waiters are resolved with the token before the new one
ProcessQueue_Stale(out) == [out EXCEPT !.token = IF out.kind = "ok" THEN @ - 1 ELSE @]

\* processQueue / processQueueError: what the waiter gets is the outcome add awaited
ProcessQueue(out) == out

\* a bug: reset leaves the waiters on the queue
reset_KeepsQueue == [isRefreshing |-> FALSE, refreshPromise |-> NoCall, queue |-> queue]
\* a bug: reset leaves the flag up
reset_KeepsFlag == [isRefreshing |-> TRUE, refreshPromise |-> NoCall, queue |-> <<>>]
\* a bug: reset leaves the settled promise in place
reset_KeepsPromise == [isRefreshing |-> FALSE, refreshPromise |-> refreshPromise, queue |-> <<>>]

\* RefreshQueue.reset: the state it leaves
reset == [isRefreshing |-> FALSE, refreshPromise |-> NoCall, queue |-> <<>>]

\* the starter r resumes: processQueue or processQueueError, its own return or throw, then reset.
\* The response interceptors that awaited add become ready: the starter's first (its await is on
\* add's own promise), then the waiters' in queue order (each is one promise hop further away).
AddContinue(r) ==
  /\ micro # <<>> /\ Head(micro) = AddCont(r)
  /\ req[r].pc = "awaiting"
  /\ calls[req[r].cyc].st = "settled"
  /\ micro' = Tail(micro) \o <<ResumeCont(r)>>
                           \o [i \in 1..Len(queue) |-> ResumeCont(ReleaseOrder(queue)[i])]
  /\ LET out == calls[req[r].cyc].out
         waiters == Waiters(queue)
     IN req' = [q \in ReqIds |->
                  IF q \in waiters THEN [req[q] EXCEPT !.pc = "resumed", !.got = ProcessQueue(out)]
                  ELSE IF q = r THEN [req[q] EXCEPT !.pc = "resumed", !.got = out]
                  ELSE req[q]]
  /\ isRefreshing' = reset.isRefreshing
  /\ refreshPromise' = reset.refreshPromise
  /\ queue' = reset.queue
  /\ calls' = [calls EXCEPT ![req[r].cyc] = [InitCall EXCEPT !.st = "consumed"]]
  /\ UNCHANGED <<store, nCalls, issued, sessionVars, mounted, authErrors, lastResp>>

\* ---- response interceptor after its await of refreshQueue.add ----
\* add resolved: set the Authorization header to the new token and send the request again
Retry(r) ==
  /\ micro # <<>> /\ Head(micro) = ResumeCont(r)
  /\ micro' = Tail(micro)
  /\ req[r].pc = "resumed"
  /\ req[r].got.kind = "ok"
  /\ req' = [req EXCEPT ![r].pc = "inflight", ![r].sent = @ + 1,
                        ![r].auth = RequestInterceptor(store, Bearer(req[r].got.token))]
  /\ UNCHANGED <<store, queueVars, calls, nCalls, issued, sessionVars, mounted, authErrors, lastResp>>

\* add rejected: clearTokens, onAuthError(authError), reject with authError
RefreshFailed(r) ==
  /\ micro # <<>> /\ Head(micro) = ResumeCont(r)
  /\ micro' = Tail(micro)
  /\ req[r].pc = "resumed"
  /\ req[r].got.kind = "err"
  /\ store' = clearTokens(store)
  /\ authErrors' = Append(authErrors, req[r].cyc)
  /\ req' = [req EXCEPT ![r] = Ended(@, "failed", 401, "AuthFailed")]
  /\ SessionOnFail(r, "AuthFailed")
  /\ UNCHANGED <<queueVars, calls, nCalls, issued, mounted, lastResp>>

\* what the network and the promise continuations do
Respond ==
  \/ \E r \in ReqIds : Recv200(r)
  \/ \E r \in ReqIds : RecvError(r)
  \/ \E r \in ReqIds : Recv401(r)
  \/ \E c \in CallIds, rotate \in BOOLEAN : RefreshRespondOk(c, rotate)
  \/ \E c \in CallIds : RefreshRespondFail(c)
  \/ \E r \in ReqIds : AddContinue(r)
  \/ \E r \in ReqIds : Retry(r)
  \/ \E r \in ReqIds : RefreshFailed(r)

\* the application sends API requests, logs in and logs out
Next ==
  \/ InitializeAuth
  \/ \E r \in 1..NApp : Send(r)
  \/ \E r \in AppLoginIds : Login(r)
  \/ Logout
  \/ Respond

Spec == Init /\ [][Next]_vars

\* the application only sends API requests
NextRequests ==
  \/ InitializeAuth
  \/ \E r \in ApiIds : Send(r)
  \/ Respond

SpecRequests == Init /\ [][NextRequests]_vars

\* a request sent through axiosInstance gets its response, or fails when the timeout of the
\* instance has run out
Answered(r) == Recv200(r) \/ RecvError(r) \/ Recv401(r)

\* the event loop runs a continuation that is ready
Continue == \E r \in ReqIds : AddContinue(r) \/ Retry(r) \/ RefreshFailed(r)

\* SpecRequests with what is bound to happen: ready continuations run, and each request of
\* axiosInstance ends, by its response or by the timeout.  The refresh request is sent with
\* the global axios, which has no timeout: nothing makes its answer come.
SpecRequestsFair ==
  /\ SpecRequests
  /\ WF_vars(Continue)
  /\ \A r \in ApiIds : WF_vars(Answered(r))

\* the application only logs in and out
NextLogin ==
  \/ InitializeAuth
  \/ \E r \in LoginIds : Login(r)
  \/ Logout
  \/ Respond

SpecLogin == Init /\ [][NextLogin]_vars

\* the same application, started on any storage an earlier page can have left
SpecStartup == InitStartup /\ [][NextLogin]_vars

\* ---------------------------------------------------------------------------
\* the invocations of refreshFn whose promise is still pending
Outstanding == {c \in CallIds : calls[c].st = "inflight"}

\* C1: at most one invocation of the refresh function is outstanding at any time, and a call of add
\* made while one is outstanding puts the caller on the queue and invokes no refresh function.
C1_SingleFlight ==
  [][ /\ Cardinality(Outstanding) <= 1
      /\ Cardinality(Outstanding') <= 1
      /\ \A r \in ReqIds :
            (req'[r].adds > req[r].adds /\ Outstanding # {})
               => /\ nCalls' = nCalls
                  /\ calls' = calls
                  /\ req'[r].pc = "queued"
                  /\ queue' = Append(queue, r) ]_vars

\* two callers came while the first renewal was outstanding and wait for it
C1_Witness ==
  /\ Cardinality(Outstanding) = 1
  /\ nCalls = 1
  /\ Len(queue) = 2

\* C2: the callers of add that waited for one renewal all get the outcome the starter gets:
\* the same token, or the same error.
C2_SameOutcome ==
  \A r, q \in ReqIds :
     (req[r].pc = "resumed" /\ req[q].pc = "resumed" /\ req[r].cyc = req[q].cyc)
        => /\ req[r].got = req[q].got
           /\ req[r].got.kind \in {"ok", "err"}

\* a starter and a waiter have both been given the token of their renewal
C2_Witness ==
  \E r, q \in ReqIds :
     /\ r # q
     /\ req[r].pc = "resumed" /\ req[q].pc = "resumed"
     /\ req[r].cyc = req[q].cyc
     /\ req[r].got.kind = "ok"
     /\ micro = <<ResumeCont(r), ResumeCont(q)>>

\* ---------------------------------------------------------------------------
OkResp(a, rt) == [status |-> "ok", access |-> a, refresh |-> rt]
OkOutcome(t) == [kind |-> "ok", token |-> t, error |-> "null"]
Waiting(r) == req[r].pc \in {"awaiting", "queued"}
\* request r, sent with access token A1, gets a 401 that sends it to add
Got401WithA1(r) ==
  /\ req[r].pc = "inflight" /\ req[r].sent = 1 /\ req[r].auth = Bearer(1)
  /\ req'[r].adds = 1
\* request r, sent with access token A1, is resent after the renewal that answered A2 without a
\* refresh token
ResentAfterA2(r) ==
  /\ req[r].pc = "resumed" /\ req[r].auth = Bearer(1) /\ req'[r].pc = "inflight"
  /\ lastResp = OkResp(2, NoToken)

\* C3 (as claimed): N requests sent with the same access token A1 while R1 is stored all get a 401:
\* the refresh endpoint is called exactly once, whatever the order of the 401s and the refresh
\* response; its answer A2 without a refresh token has each request resent with Bearer A2, R1 kept.
C3_Original ==
  [][ \A r \in ApiIds :
        /\ Got401WithA1(r) => nCalls' = 1
        /\ ResentAfterA2(r) => (req'[r].auth = Bearer(2) /\ req'[r].sent = 2 /\ store'.refresh = 1) ]_vars

\* C3 (amended): the refresh endpoint is called exactly once when every one of the N requests gets
\* its 401 before the refresh response has come; when that one renewal answers A2 without a
\* refresh token, each request is resent with Bearer A2 and the store still holds R1.
C3_Amended ==
  [][ \A r \in ApiIds :
        /\ (Got401WithA1(r) /\ lastResp.status = "none") => nCalls' = 1
        /\ ResentAfterA2(r) => (req'[r].auth = Bearer(2) /\ req'[r].sent = 2 /\ store'.refresh = 1) ]_vars

\* the three requests waited for one renewal and all are on their way again with Bearer A2
C3_Witness ==
  /\ nCalls = 1 /\ lastResp = OkResp(2, NoToken)
  /\ \A r \in ApiIds : req[r].pc = "inflight" /\ req[r].sent = 2 /\ req[r].auth = Bearer(2)
  /\ store.refresh = 1

\* the number of calls of onAuthError made for refresh cycle c
AuthErrorCalls(c) == Cardinality({i \in 1..Len(authErrors) : authErrors[i] = c})

\* C4: onAuthError is called once for a refresh cycle that fails, not once per request that
\* awaited it.
C4_OncePerCycle == \A c \in CallIds : AuthErrorCalls(c) <= 1

\* C5: when a renewal fails, the request that started it and every waiter fail with
\* 'Authentication failed. Please login again.', and the store then holds no token.
C5_RenewalFailure ==
  [][ \A r \in ReqIds :
        /\ (Waiting(r) /\ lastResp.status = "error" /\ \E q \in ReqIds : req[q].pc = "awaiting" /\ req'[q].pc = "resumed")
              => (req'[r].pc = "resumed" /\ req'[r].got.kind = "err")
        /\ (req[r].pc = "resumed" /\ req[r].got.kind = "err" /\ req'[r] # req[r])
              => (req'[r].pc = "failed" /\ req'[r].err = "AuthFailed" /\ store' = EmptyStore) ]_vars

\* a renewal failed with three requests awaiting it: all three failed with the authentication error
C5_Witness ==
  /\ \A r \in ApiIds : req[r].pc = "failed" /\ req[r].err = "AuthFailed"
  /\ nCalls = 1
  /\ store = EmptyStore

\* a 401 comes for request r while no refresh token is stored or r was retried already
Got401NoRefresh(r) ==
  /\ req[r].pc = "inflight" /\ req'[r].pc # "inflight" /\ req'[r].status = 401
  /\ (store.refresh = NoToken \/ req[r].retry)

C7_RetryOnce ==
  \A r \in ReqIds :
     /\ req[r].sent <= 2
     /\ req[r].adds <= 1
     /\ req[r].sent = 2 => (req[r].retry /\ req[r].adds = 1 /\ req[r].pc \in {"inflight", "done", "failed"})

\* a request was resent after a renewal, got a 401 again and failed with it
C7_Witness ==
  \E r \in ApiIds : /\ req[r].sent = 2 /\ req[r].adds = 1
                     /\ req[r].pc = "failed" /\ req[r].status = 401 /\ req[r].err = "E401"

\* C8: when a refresh cycle ends, with a token or with an error, the queue is idle again
\* (isRefreshing false, no promise, empty queue), and a call of add on an idle queue invokes
\* its refresh function.
C8_ResetToIdle ==
  [][ /\ (\E r \in ReqIds : req[r].pc = "awaiting" /\ req'[r].pc = "resumed")
            => (~isRefreshing' /\ refreshPromise' = NoCall /\ queue' = <<>>)
      /\ \A r \in ReqIds :
            (req'[r].adds > req[r].adds /\ ~(\E q \in ReqIds : req[q].pc = "awaiting"))
               => (nCalls' = nCalls + 1 /\ req'[r].pc = "awaiting" /\ isRefreshing'
                     /\ refreshPromise' = nCalls + 1) ]_vars

\* a second cycle runs after the first one ended
C8_Witness ==
  /\ nCalls = 2
  /\ isRefreshing /\ refreshPromise = 2
  /\ calls[1].st = "consumed" /\ calls[2].st = "inflight"

\* C9: the store holds both tokens or none, in every state.
C9_PairOrNothing == (store.access = NoToken) <=> (store.refresh = NoToken)

\* C10: a successful refresh stores the access token of the response, stores the refresh token
\* of the response when there is one and leaves the stored refresh token alone otherwise, and
\* gives the new access token to the callers of add.
C10_RefreshStores ==
  [][ /\ \A c \in CallIds :
            (calls[c].st = "inflight" /\ calls'[c].st = "settled" /\ lastResp'.status = "ok")
               => /\ store'.access = lastResp'.access
                  /\ store'.refresh = (IF lastResp'.refresh # NoToken THEN lastResp'.refresh ELSE store.refresh)
                  /\ calls'[c].out = OkOutcome(lastResp'.access)
      /\ \A r \in ReqIds :
            (req'[r].pc = "resumed" /\ req[r].pc # "resumed" /\ lastResp.status = "ok")
               => req'[r].got = OkOutcome(lastResp.access) ]_vars

\* the refresh answered A2 without a refresh token: A2 and the old R1 are stored, the caller got A2
C10_Witness ==
  /\ lastResp = OkResp(2, NoToken)
  /\ store = [access |-> 2, refresh |-> 1]
  /\ \E r \in ReqIds : req[r].pc = "resumed" /\ req[r].got = OkOutcome(2)
\* ---------------------------------------------------------------------------
\* the context's isAuthenticated, as a render computes it
isAuthenticated == user # "null" /\ store.access # NoToken

\* C11: a renewal failure that ends a request (the call of onAuthError) leaves the session as
\* logout() does, with the error kept: no user, not authenticated, error set to the
\* authentication error.
C11_ForcedLogout ==
  [][ Len(authErrors') > Len(authErrors)
        => (user' = "null" /\ ~isAuthenticated' /\ error' = "AuthFailed") ]_vars

\* C12: a waiter is pending only while the renewal it waits for is the one in flight, and the
\* step that ends a renewal releases every waiter of it, with the token or with the error.
C12_WaitersReleased ==
  [][ /\ \A q \in ReqIds :
            req'[q].pc = "queued"
               => /\ isRefreshing' /\ refreshPromise' = req'[q].cyc
                  /\ calls'[req'[q].cyc].st \in {"inflight", "settled"}
                  /\ \E i \in 1..Len(queue') : queue'[i] = q
      /\ \A r, q \in ReqIds :
            (req[r].pc = "awaiting" /\ req'[r].pc = "resumed" /\ req[q].pc = "queued")
               => /\ req[q].cyc = req[r].cyc
                  /\ req'[q].pc = "resumed"
                  /\ req'[q].got.kind \in {"ok", "err"} ]_vars

\* the first renewal has ended with a token: its starter and its two waiters are released and
\* nothing is left on the queue
C12_Witness ==
  /\ calls[1].st = "consumed" /\ queue = <<>> /\ ~isRefreshing
  /\ \A r \in ApiIds : req[r].pc = "resumed" /\ req[r].cyc = 1 /\ req[r].got.kind = "ok"

\* C13: a waiter leaves the queue only in a step taken after the refresh function of its cycle
\* has completed, and what it gets is the outcome of that invocation.
C13_AfterSettle ==
  [][ \A q \in ReqIds :
        (req[q].pc = "queued" /\ req'[q].pc # "queued")
           => /\ calls[req[q].cyc].st = "settled"
              /\ calls[req[q].cyc].out.kind \in {"ok", "err"}
              /\ req'[q].got = calls[req[q].cyc].out ]_vars

\* the renewal failed and its two waiters, behind the starter, have been given the error
C13_Witness ==
  /\ Len(micro) = 3
  /\ \A i \in 1..3 : /\ micro[i][1] = "resume"
                      /\ req[micro[i][2]].pc = "resumed"
                      /\ req[micro[i][2]].got.kind = "err"
  /\ lastResp.status = "error"

\* C14: a renewal that has started ends, by its answer or by the timeout, however long the
\* refresh endpoint stays silent: the queue goes back to idle and nobody that awaits the renewal
\* waits forever.
C14_RenewalEnds ==
  /\ isRefreshing ~> ~isRefreshing
  /\ \A r \in ApiIds : Waiting(r) ~> ~Waiting(r)

\* C15: a request that awaited a renewal that gave a token is sent again, once: the second
\* sending carries that token in its Authorization header, and there is no third sending.
C15_ResentWithNewToken ==
  [][ \A r \in ReqIds :
        /\ (req[r].pc = "resumed" /\ req[r].got.kind = "ok" /\ req'[r] # req[r])
              => /\ req[r].got.token = lastResp.access
                 /\ req'[r].pc = "inflight"
                 /\ req[r].sent = 1 /\ req'[r].sent = 2
                 /\ req'[r].auth = Bearer(lastResp.access)
        /\ req[r].sent = 2 => req'[r].sent = 2 ]_vars

\* two login requests awaited the same renewal, which rotated the refresh token; both are on
\* their way again with the new access token
C15_Witness ==
  \E r, l \in LoginIds :
     /\ r # l
     /\ lastResp.status = "ok" /\ lastResp.refresh # NoToken
     /\ req[r].pc = "inflight" /\ req[r].sent = 2 /\ req[r].auth = Bearer(lastResp.access)
     /\ req[l].pc = "inflight" /\ req[l].sent = 2 /\ req[l].auth = Bearer(lastResp.access)

\* C16: a response that is not a 401 ends the call with that response or that error: the request
\* is not sent again, add is not called, no renewal starts, onAuthError is not called, and the
\* interceptor leaves the store alone (login() itself stores the pair a login response brings).
C16_PassThrough ==
  [][ \A r \in ReqIds :
        (req[r].pc = "inflight" /\ req'[r] # req[r] /\ req'[r].status # 401)
           => /\ \/ req'[r].pc = "done" /\ req'[r].status = 200 /\ req'[r].err = "null"
                 \/ req'[r].pc = "failed" /\ req'[r].status = 500 /\ req'[r].err = "ENet"
              /\ req'[r].sent = req[r].sent /\ req'[r].adds = req[r].adds
              /\ nCalls' = nCalls /\ calls' = calls
              /\ isRefreshing' = isRefreshing /\ refreshPromise' = refreshPromise /\ queue' = queue
              /\ authErrors' = authErrors
              /\ micro' = <<>>
              /\ ~IsLogin(r) => store' = store ]_vars

\* an API request failed with a network error while both tokens are stored: it was sent once,
\* no renewal ran, the tokens are still there
C16_Witness ==
  \E r \in ApiIds :
     /\ req[r].pc = "failed" /\ req[r].err = "ENet" /\ req[r].status = 500
     /\ req[r].sent = 1 /\ ~req[r].retry
     /\ hasTokens(store) /\ nCalls = 0 /\ authErrors = <<>>

\* ---------------------------------------------------------------------------
\* the call chain of login request l has started and has not ended
LoginPending(l) == req[l].pc \in {"inflight", "awaiting", "queued", "resumed"}
\* the step ends the call of login that request l belongs to
LoginEnds(l) == LoginPending(l) /\ req'[l].pc \in {"done", "failed"}

\* C17: when login succeeds, the store holds the pair of the response, the user is the user of
\* the response and the session is authenticated.
C17_LoginSuccess ==
  [][ \A l \in LoginIds :
        (LoginEnds(l) /\ req'[l].pc = "done")
           => /\ issued' = issued + 1
              /\ store' = [access |-> issued', refresh |-> issued']
              /\ user' = "U"
              /\ isAuthenticated' ]_vars

\* a login into an empty store succeeded: the pair A2/R2 is stored and the user is set
C17_Witness ==
  \E l \in LoginIds :
     /\ req[l].pc = "done" /\ req[l].sent = 1
     /\ store = [access |-> 2, refresh |-> 2] /\ issued = 2
     /\ user = "U" /\ isAuthenticated /\ nCalls = 0

\* C18: when login fails, the error the caller gets is the error kept in the session state; the
\* failure sets no user and stores no token, and a session that was not authenticated is not
\* authenticated afterwards.
C18_LoginFailure ==
  [][ \A l \in LoginIds :
        (LoginEnds(l) /\ req'[l].pc = "failed")
           => /\ req'[l].err \in {"ENet", "E401", "AuthFailed"}
              /\ error' = req'[l].err
              /\ user' = user
              /\ store' \in {store, EmptyStore}
              /\ ~isAuthenticated => ~isAuthenticated' ]_vars

\* a login into an empty store failed with a network error: the error is kept, there is no
\* user and no token
C18_Witness ==
  \E l \in LoginIds :
     /\ req[l].pc = "failed" /\ req[l].err = "ENet"
     /\ error = "ENet" /\ user = "null" /\ store = EmptyStore /\ ~isAuthenticated

\* C19 (as claimed): login sets loading when it starts and resets it when it ends, with either
\* outcome, and loading is true in every state in which a call of login is in flight.
C19_Original ==
  [][ /\ \A l \in LoginIds : (req[l].pc = "new" /\ req'[l].pc # "new") => loading'
      /\ \A l \in LoginIds : LoginEnds(l) => ~loading'
      /\ (\E l \in LoginIds : LoginPending(l)') => loading' ]_vars

\* C19 (amended): login sets loading when it starts and resets it when it ends, with either
\* outcome; while a call of login is in flight, loading stays true until a call of login ends,
\* this one or another one that overlaps it.
C19_Amended ==
  [][ /\ \A l \in LoginIds : (req[l].pc = "new" /\ req'[l].pc # "new") => loading'
      /\ \A l \in LoginIds : LoginEnds(l) => ~loading'
      /\ ((\E l \in LoginIds : LoginPending(l)) /\ loading /\ ~loading')
            => \E l \in LoginIds : LoginEnds(l) ]_vars

\* two calls of login overlap: the first has failed and reset loading, the second is in flight
C19_Witness ==
  \E l, k \in LoginIds :
     /\ req[l].pc = "failed" /\ LoginPending(k)
     /\ ~loading

\* C20: logout is one step that sends nothing and leaves no continuation behind; after it the
\* store holds no token, there is no user and no error, and the session is not authenticated.
C20_Logout ==
  [][ Logout => /\ store' = EmptyStore
                /\ user' = "null" /\ error' = "null"
                /\ ~isAuthenticated'
                /\ req' = req /\ calls' = calls /\ nCalls' = nCalls
                /\ micro' = <<>> ]_vars

\* one login failed and another succeeded, then logout: no user, no error, no token
C20_Witness ==
  \E l, k \in LoginIds :
     /\ req[l].pc = "failed" /\ req[k].pc = "done"
     /\ user = "null" /\ error = "null" /\ store = EmptyStore

\* ---------------------------------------------------------------------------
\* C21: until the mount effect has run the session is loading, with no user; the mount effect
\* sends nothing and leaves the store alone; it ends loading with the placeholder user, the
\* session authenticated, exactly when the storage holds both tokens, and with no user otherwise.
C21_Initialize ==
  [][ /\ ~mounted => (loading /\ user = "null" /\ \A r \in ReqIds : req[r].pc = "new")
      /\ (~mounted /\ mounted')
            => /\ ~loading'
               /\ req' = req /\ calls' = calls /\ nCalls' = nCalls /\ micro' = <<>>
               /\ store' = store
               /\ IF store.access # NoToken /\ store.refresh # NoToken
                  THEN user' = "placeholder" /\ isAuthenticated'
                  ELSE user' = "null" /\ ~isAuthenticated' ]_vars

\* the storage held an access token alone at startup: the mount effect has run and left the
\* session without a user
C21_Witness ==
  /\ mounted /\ ~loading
  /\ store = [access |-> 1, refresh |-> NoToken]
  /\ user = "null"
  /\ \A r \in ReqIds : req[r].pc = "new"

\* C22: a caller that joins a renewal goes to the end of the queue, and the step that ends the
\* renewal, with a token or with an error, releases the waiters in the order of the queue:
\* their continuations become ready in that order, behind the starter's.
C22_ArrivalOrder ==
  [][ \A r \in ReqIds :
        /\ (req[r].pc = "inflight" /\ req'[r].pc = "queued") => queue' = Append(queue, r)
        /\ (req[r].pc = "awaiting" /\ req'[r].pc = "resumed")
              => micro' = <<ResumeCont(r)>> \o [i \in 1..Len(queue) |-> ResumeCont(queue[i])] ]_vars

\* request 1 started a renewal, request 3 joined it before request 2; the renewal failed and
\* the waiters are released in that order
C22_Witness ==
  /\ micro = <<ResumeCont(1), ResumeCont(3), ResumeCont(2)>>
  /\ \A r \in 1..3 : req[r].pc = "resumed" /\ req[r].got.kind = "err" /\ req[r].cyc = 1

\* C23: a request that leaves, for the first time or again after a renewal, carries the access
\* token that is stored at that moment; with no access token stored it leaves without an
\* Authorization header.
C23_HeaderIsStoredToken ==
  [][ \A r \in ReqIds :
        req'[r].sent > req[r].sent
           => /\ store' = store
              /\ req'[r].pc = "inflight"
              /\ req'[r].auth = (IF store.access # NoToken THEN Bearer(store.access) ELSE NoHeader) ]_vars

\* a login request was sent again after a renewal with the stored A2; another one, sent after
\* logout() had emptied the store, is on its way without a header
C23_Witness ==
  \E l, k \in LoginIds :
     /\ req[l].pc = "inflight" /\ req[l].sent = 2
     /\ store.access = 2 /\ req[l].auth = Bearer(2)
     /\ req[k].pc = "inflight" /\ req[k].sent = 1 /\ req[k].auth = NoHeader

\* C24: a renewal that is in flight while the store is empty was started before a logout()
\* emptied the store (only logout() clears the store under a renewal that is pending); when this
\* renewal completes it writes no token into the store.
C24_NoWriteAfterLogout ==
  [][ \A c \in CallIds :
        (store = EmptyStore /\ calls[c].st = "inflight" /\ calls'[c].st = "settled")
           => store' = EmptyStore ]_vars

\* C25: a renewal is in flight and the store holds a pair whose refresh token is not the one the
\* renewal sent: a login has succeeded since the renewal started (nothing else writes a pair
\* while a renewal is pending).  The completion of the renewal leaves that pair as it is.
C25_LoginPairKept ==
  [][ \A c \in CallIds :
        (/\ calls[c].st = "inflight" /\ calls'[c].st = "settled"
         /\ hasTokens(store) /\ store.refresh # calls[c].sentToken)
           => store' = store ]_vars

\* ---------------------------------------------------------------------------
\* the error handler of the response interceptor runs for a 401 answer to request r
Got401(r) == req[r].pc = "inflight" /\ req'[r].pc # "inflight" /\ req'[r].status = 401
\* the 401 answer to login request l ends the call as a failed login and nothing else happens
SurfacedAsLoginFailure(l) ==
  /\ req'[l].pc = "failed" /\ req'[l].err = "E401" /\ error' = "E401"
  /\ req'[l].sent = req[l].sent /\ req'[l].adds = req[l].adds
  /\ nCalls' = nCalls /\ calls' = calls /\ queue' = queue
  /\ store' = store
  /\ authErrors' = authErrors

C27_AuthErrorAfterFailure ==
  [][ Len(authErrors') > Len(authErrors)
        => /\ Len(authErrors') = Len(authErrors) + 1
           /\ lastResp.status = "error"
           /\ \E r \in ReqIds :
                 /\ req[r].pc = "resumed" /\ req[r].got.kind = "err"
                 /\ authErrors'[Len(authErrors')] = req[r].cyc
                 /\ req'[r].pc = "failed"
           /\ store' = EmptyStore ]_vars

\* a renewal failed with two login requests awaiting it: onAuthError has been called for each
\* and the store is empty
C27_Witness ==
  /\ authErrors = <<1, 1>>
  /\ store = EmptyStore
  /\ \A l \in LoginIds : req[l].pc = "failed" /\ req[l].err = "AuthFailed"

\* ---------------------------------------------------------------------------
\* request q called add and its promise has been settled
Settled(q) == req[q].adds = 1 /\ req[q].pc \notin {"awaiting", "queued"}

\* C28: the step that ends a renewal gives every waiter the token or the error of the cycle it
\* joined, one of the two, and empties the queue; a request that has been given its outcome is
\* never given another one and never waits again.
C28_SettledOnce ==
  [][ /\ \A r, q \in ReqIds :
            (req[r].pc = "awaiting" /\ req'[r].pc = "resumed" /\ req[q].pc = "queued")
               => /\ req'[q].pc = "resumed"
                  /\ req'[q].cyc = req[q].cyc
                  /\ req'[q].got = calls[req[q].cyc].out
                  /\ \/ req'[q].got.kind = "ok" /\ req'[q].got.token # NoToken /\ req'[q].got.error = "null"
                     \/ req'[q].got.kind = "err" /\ req'[q].got.token = NoToken /\ req'[q].got.error # "null"
                  /\ queue' = <<>>
      /\ \A q \in ReqIds :
            Settled(q) => /\ req'[q].pc \notin {"awaiting", "queued"}
                          /\ req'[q].adds = 1
                          /\ req'[q].got \in {req[q].got, NoOutcome}
                          /\ \A i \in 1..Len(queue') : queue'[i] # q ]_vars

\* the first renewal gave its token to its starter and a waiter, both sent again; a 401 that
\* came late has started a second renewal, whose queue is empty
C28_Witness ==
  /\ nCalls = 2 /\ calls[1].st = "consumed" /\ calls[2].st = "inflight"
  /\ queue = <<>>
  /\ \E r, q \in ApiIds : /\ r # q
                           /\ req[r].cyc = 1 /\ req[r].sent = 2
                           /\ req[q].cyc = 1 /\ req[q].sent = 2

\* C29: isRefreshing is true exactly when a refresh promise is held, and the queue holds a
\* waiter only while isRefreshing is true.
C29_QueueState ==
  /\ isRefreshing <=> refreshPromise # NoCall
  /\ queue # <<>> => isRefreshing
  /\ ~isRefreshing => \A r \in ReqIds : ~Waiting(r)

\* a renewal with a waiter failed and the queue is idle again, with nobody pending
C29_Witness ==
  /\ ~isRefreshing /\ refreshPromise = NoCall /\ queue = <<>>
  /\ nCalls = 1 /\ calls[1].st = "consumed"
  /\ Len(micro) = 2
  /\ \A i \in 1..2 : req[micro[i][2]].pc = "resumed" /\ req[micro[i][2]].got.kind = "err"

\* C30: when isAuthenticated is true the store holds a refresh token.
C30_AuthenticatedHasRefresh == isAuthenticated => store.refresh # NoToken

\* a login succeeded while a renewal was in flight, and the renewal then brought A3: the
\* session is authenticated and the store holds A3 with the refresh token of the login
C30_Witness ==
  /\ isAuthenticated /\ user = "U"
  /\ store = [access |-> 3, refresh |-> 2]

\* C31: the step that starts a renewal finds a refresh token in the store and sends that token
\* to the refresh endpoint; no invocation of refreshToken ends in 'No refresh token available'.
C31_SendsStoredRefreshToken ==
  [][ /\ nCalls' # nCalls
            => /\ nCalls' = nCalls + 1
               /\ store.refresh # NoToken /\ store' = store
               /\ calls'[nCalls'].st = "inflight"
               /\ calls'[nCalls'].sentToken = store.refresh
               /\ \E r \in ReqIds : Got401(r) /\ req'[r].pc = "awaiting" /\ req'[r].cyc = nCalls'
      /\ \A c \in CallIds : calls'[c].out.error # "NoRefreshToken" ]_vars

\* the first renewal brought A2 and no refresh token; a 401 that came late has started a second
\* renewal, which sends the R1 that is still stored
C31_Witness ==
  /\ nCalls = 2
  /\ store = [access |-> 2, refresh |-> 1]
  /\ calls[2].st = "inflight" /\ calls[2].sentToken = 1
====
